---- MODULE Spec2Model ----
(***************************************************************************)
(* A model of the epicenter event dispatchers:                             *)
(*   dispatchers/sync.rs   the Sequential engine (std::sync::RwLock)       *)
(*   dispatchers/async.rs  the Concurrent engine (tokio::sync::RwLock)     *)
(*   dispatchers/null.rs   the Null engine (wraps a Sequential engine)     *)
(* One dispatcher instance is modelled; `engine` says which of the three   *)
(* it is.  An event is a shape (its TypeId) and a value (its one field).   *)
(***************************************************************************)
EXTENDS Integers, Sequences, FiniteSets

\* ---------------------------------------------------------------- bounds
\* Most entries a Sequential or Null registry is filled with.
MaxListeners == 3
\* Most entries a Concurrent registry is filled with.
MaxAsyncListeners == 2
\* The event's field ranges over 0..MaxVal.
MaxVal == 1
\* Most suspension points (awaits returning Pending) in an async listener body.
MaxSuspend == 1

Shapes == {"T", "U"}
Values == 0..MaxVal
\* The values callers dispatch: the least and the greatest.
Inputs == {0, MaxVal}
Engines == {"Sequential", "Concurrent", "Null"}
\* The tasks that share a Concurrent dispatcher (0 names no task).
Tasks == {1, 2}

\* What a listener closure does with the event it is handed.
Ops == {"inc", "dbl"}
Apply(op, v) == IF op = "inc" THEN (v + 1) % (MaxVal + 1) ELSE (2 * v) % (MaxVal + 1)

\* The closures a caller may pass to sync listen (FnMut(&mut Ev)) and to async
\* listen (Fn(Ev) -> Fut, a body with `suspends` pending awaits).
SyncBodies == [op : Ops, suspends : {0}]
\* Closures whose body does not complete: one panics before it touches the
\* event, one calls has_listeners or dispatch on the dispatcher it is
\* registered with.
FaultyBodies == [op : {"abort", "reenter"}, suspends : {0}]
AsyncBodies == [op : {"inc"}, suspends : 0..MaxSuspend]

\* engine     which dispatcher this is
\* listeners  Dispatcher::listeners, the Vec behind the RwLock
\* poisoned   the std RwLock's poison flag (a panic while dispatch held the
\*            write guard); only a listener body that does not complete sets it
\* lock       who holds the RwLock: the writer (0: nobody) and the readers
\* call       per caller, the call it is in or has last returned from
\* listened   the shapes some listen has returned success for
\* twin       a Sequential dispatcher that is handed every listen and
\*            has_listeners call a Null dispatcher is handed: its registry,
\*            its poison flag and the result of its last call
VARIABLES engine, listeners, poisoned, lock, call, listened, twin

vars == <<engine, listeners, poisoned, lock, call, listened, twin>>

\* ------------------------------------------------------------ the registry
\* struct Listener / struct AsyncListener: the TypeId tag and the erased
\* handler.  The handler captured the concrete shape it downcasts to (ty) and
\* the typed closure (on_event); id names the closure: f1, f2, ... in
\* registration order.
Listener(Ev, id, body) ==
    [event |-> Ev,
     handler |-> [ty |-> Ev, on_event |-> [id |-> id, op |-> body.op, suspends |-> body.suspends]]]

\* listeners.push(..)
PushFront(ls, l) == <<l>> \o ls
Push(ls, l) == Append(ls, l)

\* |l| l.event == TypeId::of::<Ev>()
MatchAny(l, Ev) == TRUE
IsMatch(l, Ev) == l.event = Ev

\* listeners.iter().any(..)
AnyFirstOnly(ls, Ev) == Len(ls) > 0 /\ IsMatch(ls[1], Ev)
Any(ls, Ev) == \E i \in 1..Len(ls) : IsMatch(ls[i], Ev)

\* The filter iterator's next(): the first matching index after pos, 0 if none.
NextMatchLast(ls, Ev, pos) ==
    LET S == {i \in (pos + 1)..Len(ls) : IsMatch(ls[i], Ev)}
    IN IF S = {} THEN 0 ELSE CHOOSE i \in S : \A j \in S : j <= i
NextMatch(ls, Ev, pos) ==
    LET S == {i \in (pos + 1)..Len(ls) : IsMatch(ls[i], Ev)}
    IN IF S = {} THEN 0 ELSE CHOOSE i \in S : \A j \in S : i <= j

\* --------------------------------------------------------------- the calls
\* What a caller is doing or has last done.  log lists the calls made to erased
\* handlers by a dispatch; futs are the futures join_all holds.
IdleCall ==
    [op |-> "idle", status |-> "idle", ev |-> "T", event |-> 0, event0 |-> 0,
     result |-> "none", locked |-> "none", regLen |-> 0, pos |-> 0,
     log |-> <<>>, futs |-> <<>>]

Returned(op, Ev, result, locked) ==
    [IdleCall EXCEPT !.op = op, !.status = "returned", !.ev = Ev,
                     !.result = result, !.locked = locked]

\* The callers a dispatcher can have at once: the Sequential dispatcher holds
\* Box<dyn FnMut> and is neither Send nor Sync, so one thread owns it (and the
\* Null dispatcher with it); the Concurrent one is shared between tasks.
Callers == IF engine = "Concurrent" THEN Tasks ELSE {1}

\* The caller is inside a call: running it, or stopped in it for good (its
\* thread waits for a lock it holds itself, or its process was aborted).
Running(c) == call[c].status = "running"
Stuck(c) == call[c].status \in {"blocked", "aborted"}
Busy(c) == Running(c) \/ Stuck(c)
\* &self: the caller is not inside another call.
CanCall(c) == c \in Callers /\ ~Busy(c)
\* &mut self: no other borrow of the dispatcher is live.
CanCallMut(c) == c \in Callers /\ \A d \in Tasks : ~Busy(d)

WriteFree == lock.writer = 0 /\ lock.readers = {}
ReadFree == lock.writer = 0

Init ==
    /\ engine \in Engines
    /\ listeners = <<>>
    /\ poisoned = FALSE
    /\ lock = [writer |-> 0, readers |-> {}]
    /\ call = [c \in Tasks |-> IdleCall]
    /\ listened = {}
    /\ twin = [listeners |-> <<>>, poisoned |-> FALSE, result |-> "none"]


\* ------------------------------------------------- sync.rs: the Sequential engine
\* The erased handler built by listen: downcast_mut, then the typed closure on
\* the caller's own event (&mut).  Gives the handler's result and the value the
\* event holds afterwards.
SyncHandlerOnCopy(h, Ev, v) ==
    IF h.ty = Ev THEN [res |-> "Ok(())", event |-> v]
                 ELSE [res |-> "Err(UnregisteredEvent)", event |-> v]
SyncHandler(h, Ev, v) ==
    IF h.ty = Ev THEN [res |-> "Ok(())", event |-> Apply(h.on_event.op, v)]
                 ELSE [res |-> "Err(UnregisteredEvent)", event |-> v]

\* sync::Dispatcher::listen
listen(c, Ev, body) ==
    /\ CanCallMut(c)
    /\ Len(listeners) < MaxListeners
    /\ WriteFree
    /\ IF poisoned
         THEN /\ call' = [call EXCEPT ![c] = Returned("listen", Ev, "Err(LockPoisoned)", "none")]
              /\ UNCHANGED <<listeners, listened>>
         ELSE /\ listeners' = Push(listeners, Listener(Ev, Len(listeners) + 1, body))
              /\ listened' = listened \cup {Ev}
              /\ call' = [call EXCEPT ![c] = Returned("listen", Ev, "Ok(())", "write")]
    /\ UNCHANGED <<engine, poisoned, lock>>

\* sync::Dispatcher::has_listeners
has_listeners_unchecked(c, Ev) ==
    /\ CanCall(c)
    /\ ReadFree
    /\ call' = [call EXCEPT ![c] =
                  Returned("has_listeners", Ev,
                           IF Any(listeners, Ev) THEN "Ok(true)" ELSE "Ok(false)", "read")]
    /\ UNCHANGED <<engine, listeners, poisoned, lock, listened>>
has_listeners(c, Ev) ==
    /\ CanCall(c)
    /\ ReadFree
    /\ call' = [call EXCEPT ![c] =
                  IF poisoned
                    THEN Returned("has_listeners", Ev, "Err(LockPoisoned)", "none")
                    ELSE Returned("has_listeners", Ev,
                                  IF Any(listeners, Ev) THEN "Ok(true)" ELSE "Ok(false)",
                                  "read")]
    /\ UNCHANGED <<engine, listeners, poisoned, lock, listened>>

Sync_listen(c, Ev, body) == engine = "Sequential" /\ listen(c, Ev, body) /\ UNCHANGED twin

Sync_has_listeners(c, Ev) == engine = "Sequential" /\ has_listeners(c, Ev) /\ UNCHANGED twin

\* The value dispatch returns after the loop (n handlers were called).
StrictResult(n) == IF n = 0 THEN "Err(UnregisteredEvent)" ELSE "Ok(())"
LoopResult(n) == "Ok(())"

\* sync::Dispatcher::dispatch, up to the write lock: self.listeners.write()?
Sync_dispatch(c, Ev, v) ==
    /\ engine = "Sequential"
    /\ CanCall(c)
    /\ WriteFree
    /\ IF poisoned
         THEN /\ call' = [call EXCEPT ![c] =
                    [Returned("dispatch", Ev, "Err(LockPoisoned)", "none")
                       EXCEPT !.event = v, !.event0 = v, !.regLen = Len(listeners)]]
              /\ UNCHANGED lock
         ELSE /\ call' = [call EXCEPT ![c] =
                    [IdleCall EXCEPT !.op = "dispatch", !.status = "running", !.ev = Ev,
                                     !.event = v, !.event0 = v, !.locked = "write",
                                     !.regLen = Len(listeners)]]
              /\ lock' = [lock EXCEPT !.writer = c]
    /\ UNCHANGED <<engine, twin, listeners, poisoned, listened>>

\* One turn of the for loop: the next matching listener's handler is called
\* with the event; an error leaves the loop and the function (`?`).
Sync_dispatch_next(c) ==
    /\ engine = "Sequential"
    /\ call[c].op = "dispatch" /\ Running(c)
    /\ LET n == NextMatch(listeners, call[c].ev, call[c].pos)
       IN /\ n # 0
          /\ listeners[n].handler.on_event.op \in Ops
          /\ LET h == listeners[n].handler
                 r == SyncHandler(h, call[c].ev, call[c].event)
                 entry == [id |-> h.on_event.id, ty |-> h.ty,
                           seen |-> call[c].event, left |-> r.event]
             IN IF r.res = "Ok(())"
                  THEN /\ call' = [call EXCEPT ![c].pos = n, ![c].event = r.event,
                                               ![c].log = Append(@, entry)]
                       /\ UNCHANGED lock
                  ELSE /\ call' = [call EXCEPT ![c].pos = n, ![c].status = "returned",
                                               ![c].result = r.res,
                                               ![c].log = Append(@, entry)]
                       /\ lock' = [lock EXCEPT !.writer = 0]
    /\ UNCHANGED <<engine, twin, listeners, poisoned, listened>>

\* The loop is exhausted: the guard is dropped and Ok(()) returned.
Sync_dispatch_return_holding(c) ==
    /\ engine = "Sequential"
    /\ call[c].op = "dispatch" /\ Running(c)
    /\ NextMatch(listeners, call[c].ev, call[c].pos) = 0
    /\ call' = [call EXCEPT ![c].status = "returned",
                            ![c].result = LoopResult(Len(call[c].log))]
    /\ UNCHANGED <<engine, twin, listeners, poisoned, lock, listened>>
Sync_dispatch_return(c) ==
    /\ engine = "Sequential"
    /\ call[c].op = "dispatch" /\ Running(c)
    /\ NextMatch(listeners, call[c].ev, call[c].pos) = 0
    /\ call' = [call EXCEPT ![c].status = "returned",
                            ![c].result = LoopResult(Len(call[c].log))]
    /\ lock' = [lock EXCEPT !.writer = 0]
    /\ UNCHANGED <<engine, twin, listeners, poisoned, listened>>

\* How a panic inside a listener ends the dispatch around it.  Unwinding drops
\* the write guard, which poisons the lock, and leaves dispatch with the
\* panic; a build with panic = "abort" ends the process where it stands.
PanicOutcomes == {"unwind", "abort"}
Panicked(c, entry, outcome) ==
    IF outcome = "unwind"
      THEN /\ call' = [call EXCEPT ![c].status = "panicked", ![c].result = "panic",
                                   ![c].log = Append(@, entry)]
           /\ poisoned' = TRUE
           /\ lock' = [lock EXCEPT !.writer = 0]
      ELSE /\ call' = [call EXCEPT ![c].status = "aborted", ![c].log = Append(@, entry)]
           /\ UNCHANGED <<poisoned, lock>>

\* One turn of the for loop whose closure panics.
Sync_dispatch_skip(c, outcome) ==
    /\ engine = "Sequential"
    /\ call[c].op = "dispatch" /\ Running(c)
    /\ LET n == NextMatch(listeners, call[c].ev, call[c].pos)
       IN /\ n # 0
          /\ listeners[n].handler.on_event.op = "abort"
          /\ LET h == listeners[n].handler
                 entry == [id |-> h.on_event.id, ty |-> h.ty,
                           seen |-> call[c].event, left |-> call[c].event]
             IN call' = [call EXCEPT ![c].pos = n, ![c].log = Append(@, entry)]
    /\ UNCHANGED <<engine, twin, listeners, poisoned, lock, listened>>
Sync_dispatch_panic(c, outcome) ==
    /\ engine = "Sequential"
    /\ call[c].op = "dispatch" /\ Running(c)
    /\ LET n == NextMatch(listeners, call[c].ev, call[c].pos)
       IN /\ n # 0
          /\ listeners[n].handler.on_event.op = "abort"
          /\ LET h == listeners[n].handler
                 entry == [id |-> h.on_event.id, ty |-> h.ty,
                           seen |-> call[c].event, left |-> call[c].event]
             IN Panicked(c, entry, outcome)
    /\ UNCHANGED <<engine, twin, listeners, listened>>

\* Whether a call made from inside a listener gets the lock it asks for:
\* has_listeners asks for a read guard, dispatch for a write guard.
InnerAcquiresAlways(inner) == TRUE
InnerAcquires(inner) == IF inner = "has_listeners" THEN ReadFree ELSE WriteFree

\* What std's RwLock does with a thread that asks for a lock it holds: it
\* blocks the thread for good or it panics, whichever the platform's lock does.
RelockOutcomes == {"deadlock", "unwind", "abort"}

\* One turn of the for loop whose closure calls has_listeners or dispatch on
\* the dispatcher it is registered with.
Sync_dispatch_reenter(c, inner, outcome) ==
    /\ engine = "Sequential"
    /\ call[c].op = "dispatch" /\ Running(c)
    /\ LET n == NextMatch(listeners, call[c].ev, call[c].pos)
       IN /\ n # 0
          /\ listeners[n].handler.on_event.op = "reenter"
          /\ LET h == listeners[n].handler
                 entry == [id |-> h.on_event.id, ty |-> h.ty,
                           seen |-> call[c].event, left |-> call[c].event]
             IN IF InnerAcquires(inner)
                  THEN /\ call' = [call EXCEPT ![c].pos = n, ![c].log = Append(@, entry)]
                       /\ UNCHANGED <<poisoned, lock>>
                  ELSE IF outcome = "deadlock"
                         THEN /\ call' = [call EXCEPT ![c].status = "blocked",
                                                      ![c].log = Append(@, entry)]
                              /\ UNCHANGED <<poisoned, lock>>
                         ELSE Panicked(c, entry, outcome)
    /\ UNCHANGED <<engine, twin, listeners, listened>>

\* ------------------------------------------------------ null.rs: the Null engine
\* sync::Dispatcher::listen and has_listeners on a dispatcher d given as a value.
Twin_listen(d, Ev, body) ==
    IF d.poisoned
      THEN [d EXCEPT !.result = "Err(LockPoisoned)"]
      ELSE [d EXCEPT !.listeners = Push(@, Listener(Ev, Len(@) + 1, body)),
                     !.result = "Ok(())"]
Twin_has_listeners(d, Ev) ==
    [d EXCEPT !.result = IF d.poisoned THEN "Err(LockPoisoned)"
                         ELSE IF Any(d.listeners, Ev) THEN "Ok(true)" ELSE "Ok(false)"]

\* null::Dispatcher::listen: self.0.listen(on_event)
Null_listen_unrecorded(c, Ev, body) ==
    /\ engine = "Null"
    /\ CanCallMut(c)
    /\ Len(twin.listeners) < MaxListeners
    /\ call' = [call EXCEPT ![c] = Returned("listen", Ev, "Ok(())", "none")]
    /\ twin' = Twin_listen(twin, Ev, body)
    /\ UNCHANGED <<engine, listeners, poisoned, lock, listened>>
Null_listen(c, Ev, body) ==
    /\ engine = "Null"
    /\ listen(c, Ev, body)
    /\ twin' = Twin_listen(twin, Ev, body)

\* null::Dispatcher::has_listeners: self.0.has_listeners::<Ev>()
Null_has_listeners(c, Ev) ==
    /\ engine = "Null"
    /\ has_listeners(c, Ev)
    /\ twin' = Twin_has_listeners(twin, Ev)

\* null::Dispatcher::dispatch: an empty body.
NullDelegates(c, Ev, v) ==
    /\ engine = "Null"
    /\ CanCall(c)
    /\ WriteFree
    /\ LET S == {i \in 1..Len(listeners) : IsMatch(listeners[i], Ev)}
           calls == [k \in 1..Cardinality(S) |->
                       [id |-> k, ty |-> Ev, seen |-> v, left |-> v]]
       IN call' = [call EXCEPT ![c] =
                     [Returned("dispatch", Ev, "Ok(())", "write")
                        EXCEPT !.event = v, !.event0 = v, !.regLen = Len(listeners),
                               !.log = calls]]
    /\ UNCHANGED <<engine, twin, listeners, poisoned, lock, listened>>
Null_dispatch(c, Ev, v) ==
    /\ engine = "Null"
    /\ CanCall(c)
    /\ call' = [call EXCEPT ![c] =
                  [Returned("dispatch", Ev, "()", "none")
                     EXCEPT !.event = v, !.event0 = v, !.regLen = Len(listeners)]]
    /\ UNCHANGED <<engine, twin, listeners, poisoned, lock, listened>>

\* ---------------------------------------------- async.rs: the Concurrent engine
\* Async_listen: the write lock is awaited, the entry pushed, () returned.
Async_listen_shared(c, Ev, body) ==
    /\ engine = "Concurrent"
    /\ CanCall(c)
    /\ Len(listeners) < MaxAsyncListeners
    /\ listeners' = Push(listeners, Listener(Ev, Len(listeners) + 1, body))
    /\ listened' = listened \cup {Ev}
    /\ call' = [call EXCEPT ![c] = Returned("listen", Ev, "()", "write")]
    /\ UNCHANGED <<engine, twin, poisoned, lock>>
Async_listen(c, Ev, body) ==
    /\ engine = "Concurrent"
    /\ CanCallMut(c)
    /\ Len(listeners) < MaxAsyncListeners
    /\ WriteFree
    /\ listeners' = Push(listeners, Listener(Ev, Len(listeners) + 1, body))
    /\ listened' = listened \cup {Ev}
    /\ call' = [call EXCEPT ![c] = Returned("listen", Ev, "()", "write")]
    /\ UNCHANGED <<engine, twin, poisoned, lock>>

Async_has_listeners(c, Ev) ==
    /\ engine = "Concurrent"
    /\ CanCall(c)
    /\ ReadFree
    /\ call' = [call EXCEPT ![c] =
                  Returned("has_listeners", Ev,
                           IF Any(listeners, Ev) THEN "true" ELSE "false", "read")]
    /\ UNCHANGED <<engine, twin, listeners, poisoned, lock, listened>>

\* The erased handler built by async listen, called with &event: downcast_ref,
\* expect, clone; the future it returns owns the clone and has not run yet.
AsyncHandlerDefault(h, Ev, v) ==
    [id |-> h.on_event.id, ty |-> h.ty, op |-> h.on_event.op,
     left |-> h.on_event.suspends, ev |-> 0,
     st |-> IF h.ty = Ev THEN "created" ELSE "panicked"]
AsyncHandler(h, Ev, v) ==
    [id |-> h.on_event.id, ty |-> h.ty, op |-> h.on_event.op,
     left |-> h.on_event.suspends, ev |-> v,
     st |-> IF h.ty = Ev THEN "created" ELSE "panicked"]

\* listeners.iter().filter(..)
Unfiltered(ls, Ev) == ls
Matched(ls, Ev) == SelectSeq(ls, LAMBDA l : IsMatch(l, Ev))

\* .map(|listener| (listener.handler)(event)), collected by join_all
Futures(ls, Ev, v) ==
    LET m == Matched(ls, Ev)
    IN [k \in 1..Len(m) |-> AsyncHandler(m[k].handler, Ev, v)]

\* self.listeners.read().await: the caller joins the lock's readers.
AcquireWrite(lk, c) == [lk EXCEPT !.writer = c]
AcquireRead(lk, c) == [lk EXCEPT !.readers = @ \cup {c}]

\* Async_dispatch up to join_all's construction: the read lock is taken and
\* every matching handler is called once, in order, which yields the futures.
\* A failed expect unwinds out of dispatch and drops the guard.
Async_dispatch(c, Ev, v) ==
    /\ engine = "Concurrent"
    /\ CanCall(c)
    /\ ReadFree
    /\ LET fs == Futures(listeners, Ev, v)
           started == [IdleCall EXCEPT !.op = "dispatch", !.status = "running", !.ev = Ev,
                                       !.event = v, !.event0 = v, !.locked = "read",
                                       !.regLen = Len(listeners), !.futs = fs]
       IN IF \E k \in 1..Len(fs) : fs[k].st = "panicked"
            THEN /\ call' = [call EXCEPT ![c] =
                       [started EXCEPT !.status = "panicked", !.result = "panic"]]
                 /\ UNCHANGED lock
            ELSE /\ call' = [call EXCEPT ![c] = started]
                 /\ lock' = AcquireRead(lock, c)
    /\ UNCHANGED <<engine, twin, listeners, poisoned, listened>>

\* Which future join_all may poll now: its first poll polls the futures in
\* order, once each; later polls resume whichever pending future was woken.
PollAnyOrder(futs, k) == futs[k].st # "done"
PollOrder(futs, k) ==
    /\ futs[k].st # "done"
    /\ IF futs[k].st = "created"
         THEN \A j \in 1..(k - 1) : futs[j].st # "created"
         ELSE \A j \in 1..Len(futs) : futs[j].st # "created"

\* What the caller's event holds after a listener's future, which owns the
\* clone `local`, has run.
WrittenBack(event, local) == local
CallerEvent(event, local) == event

\* join_all polls future k: on its first poll the typed closure is called with
\* the clone; the body runs to its next pending await, or to its end.
Async_poll(c, k) ==
    /\ engine = "Concurrent"
    /\ call[c].op = "dispatch" /\ Busy(c)
    /\ k \in 1..Len(call[c].futs)
    /\ PollOrder(call[c].futs, k)
    /\ LET f == call[c].futs[k]
           g == IF f.left > 0
                  THEN [f EXCEPT !.st = "pending", !.left = f.left - 1]
                  ELSE [f EXCEPT !.st = "done", !.ev = Apply(f.op, f.ev)]
           entry == [id |-> f.id, ty |-> f.ty, seen |-> f.ev, left |-> f.ev]
       IN call' = [call EXCEPT ![c].futs[k] = g,
                               ![c].log = IF f.st = "created" THEN Append(@, entry) ELSE @,
                               ![c].event = CallerEvent(@, g.ev)]
    /\ UNCHANGED <<engine, twin, listeners, poisoned, lock, listened>>

\* join_all(..).await is ready when every future is done.
FirstReady(futs) == \E k \in 1..Len(futs) : futs[k].st = "done"
JoinAllReady(futs) == \A k \in 1..Len(futs) : futs[k].st = "done"

\* drop(listeners); Ok(())
Async_dispatch_return(c) ==
    /\ engine = "Concurrent"
    /\ call[c].op = "dispatch" /\ Busy(c)
    /\ JoinAllReady(call[c].futs)
    /\ call' = [call EXCEPT ![c].status = "returned", ![c].result = "Ok(())"]
    /\ lock' = [lock EXCEPT !.readers = @ \ {c}]
    /\ UNCHANGED <<engine, twin, listeners, poisoned, listened>>

\* --------------------------------------------------------- the specifications
Next ==
    \/ \E c \in Tasks, Ev \in Shapes, body \in SyncBodies : Sync_listen(c, Ev, body)
    \/ \E c \in Tasks, Ev \in Shapes : Sync_has_listeners(c, Ev)
    \/ \E c \in Tasks, Ev \in Shapes, v \in Inputs : Sync_dispatch(c, Ev, v)
    \/ \E c \in Tasks : Sync_dispatch_next(c)
    \/ \E c \in Tasks : Sync_dispatch_return(c)
    \/ \E c \in Tasks, Ev \in Shapes, body \in SyncBodies : Null_listen(c, Ev, body)
    \/ \E c \in Tasks, Ev \in Shapes : Null_has_listeners(c, Ev)
    \/ \E c \in Tasks, Ev \in Shapes, v \in Inputs : Null_dispatch(c, Ev, v)
    \/ \E c \in Tasks, Ev \in Shapes, body \in AsyncBodies : Async_listen(c, Ev, body)
    \/ \E c \in Tasks, Ev \in Shapes : Async_has_listeners(c, Ev)
    \/ \E c \in Tasks, Ev \in Shapes, v \in Inputs : Async_dispatch(c, Ev, v)
    \/ \E c \in Tasks, k \in 1..MaxAsyncListeners : Async_poll(c, k)
    \/ \E c \in Tasks : Async_dispatch_return(c)

Spec == Init /\ [][Next]_vars

\* The same dispatchers with listeners whose bodies do not complete.
FaultNext ==
    \/ Next
    \/ \E c \in Tasks, Ev \in Shapes, body \in FaultyBodies : Sync_listen(c, Ev, body)
    \/ \E c \in Tasks, outcome \in PanicOutcomes : Sync_dispatch_panic(c, outcome)
    \/ \E c \in Tasks, inner \in {"has_listeners", "dispatch"}, outcome \in RelockOutcomes :
         Sync_dispatch_reenter(c, inner, outcome)

FaultSpec == Init /\ [][FaultNext]_vars

\* A task's dispatch future moves on: join_all polls a listener future that
\* can run, or join_all is ready and dispatch returns.
Async_progress(c) ==
    \/ \E k \in 1..MaxAsyncListeners : Async_poll(c, k)
    \/ Async_dispatch_return(c)

\* The runtime keeps polling every task whose dispatch future can move on.
FairSpec == Spec /\ \A c \in Tasks : WF_vars(Async_progress(c))

\* The thread inside a Sequential dispatch goes on with the loop while the
\* listener it is to call has a body that completes.
Sync_progress(c) == Sync_dispatch_next(c) \/ Sync_dispatch_return(c)

FairFaultSpec ==
    /\ FaultSpec
    /\ \A c \in Tasks : WF_vars(Sync_progress(c)) /\ WF_vars(Async_progress(c))

\* ------------------------------------------------------ reading a dispatch
\* The registry entry that holds the closure named id, and what it was
\* registered with.
EntryById(id) ==
    listeners[CHOOSE i \in 1..Len(listeners) : listeners[i].handler.on_event.id = id]
Registered(id) == \E i \in 1..Len(listeners) : listeners[i].handler.on_event.id = id

\* The closures registered for Ev among the first n registered, in
\* registration order, and as a set.
MatchingIdSeq(Ev, n) ==
    SelectSeq([i \in 1..n |-> i], LAMBDA id : Registered(id) /\ EntryById(id).event = Ev)
MatchingIds(Ev, n) == {id \in 1..n : Registered(id) /\ EntryById(id).event = Ev}

\* The closures a dispatch has called so far, in call order, and as a set.
InvokedSeq(c) == [k \in 1..Len(call[c].log) |-> call[c].log[k].id]
InvokedIds(c) == {call[c].log[k].id : k \in 1..Len(call[c].log)}
TimesInvoked(c, id) == Cardinality({k \in 1..Len(call[c].log) : call[c].log[k].id = id})

Delivering == engine \in {"Sequential", "Concurrent"}
Dispatching(c) == call[c].op = "dispatch"
HasReturned(c) == call[c].status = "returned"

\* C1 Type isolation: on the Sequential and the Concurrent engine every handler
\* a dispatch of shape T calls belongs to an entry tagged T and downcasts to T
\* itself, and a dispatch that has returned called exactly the entries tagged T.
C1_TypeIsolation ==
    Delivering =>
      \A c \in Tasks :
        Dispatching(c) =>
          /\ \A k \in 1..Len(call[c].log) :
               /\ call[c].log[k].ty = call[c].ev
               /\ Registered(call[c].log[k].id)
               /\ EntryById(call[c].log[k].id).event = call[c].ev
          /\ \A k \in 1..Len(call[c].futs) :
               /\ call[c].futs[k].ty = call[c].ev
               /\ Registered(call[c].futs[k].id)
               /\ EntryById(call[c].futs[k].id).event = call[c].ev
          /\ call[c].status # "panicked"
          /\ call[c].result # "Err(UnregisteredEvent)"
          /\ HasReturned(c) => InvokedIds(c) = MatchingIds(call[c].ev, call[c].regLen)

\* A dispatch that returned after calling a listener while a listener of another
\* shape was registered too.
C1_Witness ==
    \E c \in Tasks :
      /\ Delivering /\ Dispatching(c) /\ HasReturned(c)
      /\ call[c].log # <<>>
      /\ \E i \in 1..call[c].regLen : listeners[i].event # call[c].ev

\* C2 Order preservation: a Sequential dispatch calls the listeners of its
\* shape in the order they were registered, one whole call after the other, and
\* when it returns it has called all of them in that order.
C2_OrderPreserved ==
    engine = "Sequential" =>
      \A c \in Tasks :
        Dispatching(c) =>
          /\ \A j, k \in 1..Len(call[c].log) :
               j < k => call[c].log[j].id < call[c].log[k].id
          /\ HasReturned(c) => InvokedSeq(c) = MatchingIdSeq(call[c].ev, call[c].regLen)

\* A Sequential dispatch that returned after calling three listeners.
C2_Witness ==
    \E c \in Tasks :
      /\ engine = "Sequential" /\ Dispatching(c) /\ HasReturned(c)
      /\ Len(call[c].log) = 3

\* C3 Mutation threading: in a Sequential dispatch the first listener called
\* receives the caller's value, each later one receives what the one before it
\* left, each leaves what its closure makes of what it received, and the
\* caller's event holds what the last one left.
C3_MutationThreading ==
    engine = "Sequential" =>
      \A c \in Tasks :
        Dispatching(c) =>
          LET log == call[c].log
          IN /\ \A k \in 1..Len(log) :
                  /\ log[k].seen = IF k = 1 THEN call[c].event0 ELSE log[k - 1].left
                  /\ Registered(log[k].id)
                  /\ log[k].left = Apply(EntryById(log[k].id).handler.on_event.op, log[k].seen)
             /\ call[c].event = IF log = <<>> THEN call[c].event0 ELSE log[Len(log)].left

\* A Sequential dispatch that returned with a value other than the one passed
\* in, whose second listener received a value other than the one passed in.
C3_Witness ==
    \E c \in Tasks :
      /\ engine = "Sequential" /\ Dispatching(c) /\ HasReturned(c)
      /\ Len(call[c].log) >= 2
      /\ call[c].log[2].seen # call[c].event0
      /\ call[c].event # call[c].event0

\* A has_listeners answer of true, from either signature.
IsTrue(result) == result \in {"Ok(true)", "true"}
IsFalse(result) == result \in {"Ok(false)", "false"}
\* Caller c took a step of a call.
Stepped(c) == call'[c] # call[c]

C7_NullSuppression ==
    [][engine = "Null" =>
         \A c \in Tasks :
           Stepped(c) =>
             /\ call'[c].op = "dispatch" =>
                  /\ ~Busy(c)
                  /\ call'[c].status = "returned"
                  /\ call'[c].log = <<>>
                  /\ call'[c].locked = "none"
                  /\ call'[c].event = call'[c].event0
                  /\ listeners' = listeners
                  /\ lock' = lock
             /\ (call'[c].op = "has_listeners" /\ call'[c].ev \in listened) =>
                  call'[c].result = "Ok(true)"]_vars

\* A Null dispatch returned although a listener of its shape is registered.
C7_Witness ==
    \E c \in Tasks :
      /\ engine = "Null" /\ Dispatching(c) /\ HasReturned(c)
      /\ \E i \in 1..call[c].regLen : listeners[i].event = call[c].ev

\* The body of the closure behind future f never suspends.
NeverSuspends(f) == EntryById(f.id).handler.on_event.suspends = 0
Started(f) == f.st # "created"

\* C8 as stated: in a Concurrent dispatch a matched listener is not started
\* before the one registered before it has completed.
C8_AwaitsEachListener ==
    engine = "Concurrent" =>
      \A c \in Tasks :
        Dispatching(c) =>
          \A k \in 1..(Len(call[c].futs) - 1) :
            Started(call[c].futs[k + 1]) => call[c].futs[k].st = "done"

\* C8 amended: in a Concurrent dispatch the matched listeners are started in
\* registration order, each as soon as the one before it has suspended or
\* completed; only a listener whose body never suspends has completed when the
\* next one is started.
C8_StartedInOrder ==
    engine = "Concurrent" =>
      \A c \in Tasks :
        Dispatching(c) =>
          /\ \A k \in 1..(Len(call[c].futs) - 1) :
               Started(call[c].futs[k + 1]) =>
                 /\ Started(call[c].futs[k])
                 /\ NeverSuspends(call[c].futs[k]) => call[c].futs[k].st = "done"
          /\ \A j, k \in 1..Len(call[c].log) :
               j < k => call[c].log[j].id < call[c].log[k].id
          /\ \A k \in 1..Len(call[c].log) :
               /\ call[c].log[k].id = call[c].futs[k].id
               /\ Started(call[c].futs[k])

\* The second matched listener has been started while the first is suspended.
C8_Witness ==
    \E c \in Tasks :
      /\ engine = "Concurrent" /\ Dispatching(c) /\ Busy(c)
      /\ Len(call[c].futs) >= 2
      /\ call[c].futs[1].st = "pending"
      /\ Started(call[c].futs[2])

\* C9 as stated: in a Concurrent dispatch each matched listener after the
\* first receives the value the one before it left, and after the return the
\* caller's event holds what the last one left.
C9_ThreadsMutations ==
    engine = "Concurrent" =>
      \A c \in Tasks :
        Dispatching(c) =>
          /\ \A k \in 2..Len(call[c].log) :
               call[c].log[k].seen = Apply(call[c].futs[k - 1].op, call[c].log[k - 1].seen)
          /\ (HasReturned(c) /\ call[c].futs # <<>>) =>
               call[c].event = call[c].futs[Len(call[c].futs)].ev

\* C9 amended: in a Concurrent dispatch every matched listener receives a clone
\* of the value the caller passed in and changes only that clone; no listener
\* observes another's mutation, and the caller's event is never changed.
C9_ClonesNotThreaded ==
    engine = "Concurrent" =>
      \A c \in Tasks :
        Dispatching(c) =>
          /\ call[c].event = call[c].event0
          /\ \A k \in 1..Len(call[c].log) : call[c].log[k].seen = call[c].event0
          /\ \A k \in 1..Len(call[c].futs) :
               call[c].futs[k].ev = IF call[c].futs[k].st = "done"
                                      THEN Apply(call[c].futs[k].op, call[c].event0)
                                      ELSE call[c].event0

\* A Concurrent dispatch returned; its first listener changed its clone, its
\* second listener received the caller's value all the same.
C9_Witness ==
    \E c \in Tasks :
      /\ engine = "Concurrent" /\ Dispatching(c) /\ HasReturned(c)
      /\ Len(call[c].log) >= 2
      /\ call[c].futs[1].ev # call[c].event0
      /\ call[c].log[2].seen = call[c].event0

\* C10 No listener abandoned: a Concurrent dispatch that has returned returned
\* success with a completed future for every entry of its shape; and, the
\* runtime polling what can be polled, a dispatch in progress leads to its
\* return.
C10_NoListenerAbandoned ==
    /\ [](engine = "Concurrent" =>
            \A c \in Tasks :
              (Dispatching(c) /\ HasReturned(c)) =>
                 /\ call[c].result = "Ok(())"
                 /\ Len(call[c].futs) = Cardinality(MatchingIds(call[c].ev, call[c].regLen))
                 /\ \A k \in 1..Len(call[c].futs) : call[c].futs[k].st = "done")
    /\ \A c \in Tasks :
         (engine = "Concurrent" /\ Dispatching(c) /\ Busy(c))
           ~> (Dispatching(c) /\ HasReturned(c) /\ call[c].result = "Ok(())")

\* A Concurrent dispatch returned after two listeners, one of which suspended.
C10_Witness ==
    \E c \in Tasks :
      /\ engine = "Concurrent" /\ Dispatching(c) /\ HasReturned(c)
      /\ Len(call[c].futs) >= 2
      /\ \E k \in 1..Len(call[c].futs) : ~NeverSuspends(call[c].futs[k])

\* The dispatches in progress.
InProgress == {c \in Tasks : Dispatching(c) /\ Busy(c)}

\* C11 as stated: no two dispatches on the dispatcher are in progress at the
\* same time.
C11_DispatchesSerialized == Cardinality(InProgress) <= 1

\* C11 amended: a Sequential dispatch in progress is the only one and holds the
\* lock as its writer; the Concurrent dispatches in progress are exactly the
\* lock's readers and the lock has no writer, so they exclude a registration
\* but not each other.
C11_SharedInConcurrent ==
    /\ engine # "Concurrent" =>
         /\ Cardinality(InProgress) <= 1
         /\ lock.readers = {}
         /\ \A c \in Tasks : c \in InProgress <=> lock.writer = c
    /\ engine = "Concurrent" =>
         /\ lock.writer = 0
         /\ lock.readers = InProgress
         /\ \A c \in InProgress : call[c].locked = "read"

\* Two Concurrent dispatches in progress, each with a listener started and
\* not completed.
C11_Witness ==
    /\ engine = "Concurrent"
    /\ InProgress = Tasks
    /\ \A c \in Tasks : \E k \in 1..Len(call[c].futs) : call[c].futs[k].st = "pending"

\* C12 Registration is atomic with respect to dispatch: a step that changes
\* the registry is one whole listen, taken when the lock is free and no
\* dispatch is in progress, and it leaves the lock free; a dispatch in progress
\* reads the registry as it was when it began and calls only listeners that
\* were registered by then.
C12_RegistrationAtomic ==
    [][/\ listeners' # listeners =>
            /\ InProgress = {}
            /\ WriteFree
            /\ lock' = lock
            /\ \E c \in Tasks :
                 /\ \A d \in Tasks \ {c} : call'[d] = call[d]
                 /\ call'[c].op = "listen"
                 /\ call'[c].status = "returned"
                 /\ call'[c].locked = "write"
       /\ \A c \in Tasks :
            (Delivering /\ call'[c].op = "dispatch" /\ call'[c].status = "running") =>
               /\ call'[c].regLen = Len(listeners')
               /\ listeners' = listeners
               /\ \A k \in 1..Len(call'[c].log) :
                    call'[c].log[k].id \in 1..call'[c].regLen]_vars

\* A listener was registered after a dispatch returned, and a dispatch begun
\* after that has called it.
C12_Witness ==
    \E c \in Tasks :
      /\ Delivering /\ Dispatching(c)
      /\ call[c].regLen >= 2
      /\ \E k \in 1..Len(call[c].log) : call[c].log[k].id = call[c].regLen

\* C13 Lock unusable is fatal and surfaced: a listener's panic that unwinds out
\* of a Sequential dispatch poisons the lock; a poisoned lock stays poisoned
\* and is held by nobody; every call made on the dispatcher from then on is
\* returned at once with the lock-poisoned error, calls no handler, takes no
\* lock and leaves the registry as it was.
C13_PoisonIsFatal ==
    [][/\ \A c \in Tasks : (call'[c].status = "panicked" /\ engine = "Sequential") => poisoned'
       /\ poisoned =>
            /\ poisoned'
            /\ WriteFree
            /\ listeners' = listeners
            /\ lock' = lock
            /\ \A c \in Tasks :
                 Stepped(c) =>
                   /\ call'[c].op \in {"listen", "has_listeners", "dispatch"}
                   /\ call'[c].status = "returned"
                   /\ call'[c].result = "Err(LockPoisoned)"
                   /\ call'[c].locked = "none"
                   /\ call'[c].log = <<>>]_vars

\* has_listeners was refused with the lock-poisoned error for a shape that has
\* a listener whose body completes.
C13_Witness ==
    \E c \in Tasks :
      /\ poisoned
      /\ call[c].op = "has_listeners"
      /\ call[c].result = "Err(LockPoisoned)"
      /\ \E i \in 1..Len(listeners) :
           listeners[i].event = call[c].ev /\ listeners[i].handler.on_event.op \in Ops

LastEntry(ls) == ls[Len(ls)]

\* C15 Append-only registry: in every engine a step changes the registry only
\* by appending one entry, which a listen that returned success tagged with
\* its own shape; every other step, all of dispatch and has_listeners with
\* them, and a listen that failed, leaves the registry as it was, so the
\* entries in place keep their position, tag and handler.
C15_AppendOnly ==
    [][/\ Len(listeners') >= Len(listeners)
       /\ \A i \in 1..Len(listeners) : listeners'[i] = listeners[i]
       /\ listeners' # listeners =>
            /\ Len(listeners') = Len(listeners) + 1
            /\ \E c \in Tasks :
                 /\ call'[c].op = "listen"
                 /\ call'[c].result \in {"Ok(())", "()"}
                 /\ LastEntry(listeners').event = call'[c].ev
                 /\ LastEntry(listeners').handler.ty = call'[c].ev
       /\ \A c \in Tasks :
            (Stepped(c) /\ call'[c].op \in {"dispatch", "has_listeners"}) =>
               listeners' = listeners
       /\ \A c \in Tasks :
            (Stepped(c) /\ call'[c].op = "listen" /\ call'[c].result \in {"Ok(())", "()"}) =>
               Len(listeners') = Len(listeners) + 1
       /\ \A c \in Tasks :
            (Stepped(c) /\ call'[c].op = "listen" /\ call'[c].result = "Err(LockPoisoned)") =>
               listeners' = listeners]_vars

\* A dispatch has called a listener of a registry of three entries whose last
\* entry has another shape than its first.
C15_Witness ==
    \E c \in Tasks :
      /\ Dispatching(c) /\ call[c].log # <<>>
      /\ Len(listeners) = 3
      /\ listeners[1].event # listeners[3].event

\* C16 Null bookkeeping equals the Sequential engine's: a Sequential
\* dispatcher handed the listen and has_listeners calls a Null dispatcher is
\* handed holds the same registry and the same poison flag after every call,
\* and returned from its last call what the Null dispatcher returned.
C16_NullBookkeeping ==
    engine = "Null" =>
      /\ twin.listeners = listeners
      /\ twin.poisoned = poisoned
      /\ \A c \in Callers :
           call[c].op \in {"listen", "has_listeners"} => call[c].result = twin.result
      /\ \A Ev \in Shapes :
           Twin_has_listeners(twin, Ev).result = IF Ev \in listened THEN "Ok(true)" ELSE "Ok(false)"

\* A Null dispatcher and its Sequential twin both answered false for a shape
\* after two listeners of the other shape were registered with both.
C16_Witness ==
    \E c \in Tasks :
      /\ engine = "Null"
      /\ call[c].op = "has_listeners"
      /\ call[c].result = "Ok(false)" /\ twin.result = "Ok(false)"
      /\ Len(twin.listeners) >= 2

\* The closure named id panics when it is called.
Aborts(id) == Registered(id) /\ EntryById(id).handler.on_event.op = "abort"

\* C17 No skip-and-continue on a listener fault: the listener that aborts in a
\* Sequential dispatch is the last one that dispatch calls; the dispatch has
\* then called the listeners of its shape registered up to that one, in order,
\* and no later one; it has not returned and never holds a result of success;
\* and the event holds what the listener called before the aborting one left
\* (the caller's value, if there was none).
C17_NoSkipAndContinue ==
    engine = "Sequential" =>
      \A c \in Tasks :
        Dispatching(c) =>
          LET log == call[c].log
          IN \A k \in 1..Len(log) :
               Aborts(log[k].id) =>
                 /\ k = Len(log)
                 /\ InvokedSeq(c) = MatchingIdSeq(call[c].ev, log[k].id)
                 /\ call[c].status \in {"panicked", "aborted"}
                 /\ call[c].result # "Ok(())"
                 /\ call[c].event = IF k = 1 THEN call[c].event0 ELSE log[k - 1].left
                 /\ \A j \in 1..(k - 1) :
                      log[j].left = Apply(EntryById(log[j].id).handler.on_event.op, log[j].seen)

\* A Sequential dispatch panicked in its second listener: the event holds the
\* first listener's change, and a listener of its shape registered after the
\* aborting one was not called.
C17_Witness ==
    \E c \in Tasks :
      /\ engine = "Sequential" /\ Dispatching(c)
      /\ call[c].status = "panicked"
      /\ Len(call[c].log) = 2
      /\ Aborts(call[c].log[2].id)
      /\ call[c].event # call[c].event0
      /\ \E i \in 1..call[c].regLen :
           i > call[c].log[2].id /\ listeners[i].event = call[c].ev

\* Caller c holds the registry lock.
Holds(c) == lock.writer = c \/ c \in lock.readers
\* The body of every listener registered for the shape of c's dispatch completes.
BodiesComplete(c) ==
    \A i \in 1..call[c].regLen :
      listeners[i].event = call[c].ev => listeners[i].handler.on_event.op \in Ops

\* C18 Dispatch terminates and releases the registry: a Sequential or
\* Concurrent dispatch calls each registry entry at most once; a caller that
\* is in no call holds no lock, whatever its last call returned, so the lock
\* is free when nobody is in a call; and a dispatch in progress whose matched
\* listeners all have bodies that complete leads to its return with the lock
\* given back.
C18_TerminatesAndReleases ==
    /\ [](\A c \in Tasks :
            /\ ~Busy(c) => ~Holds(c)
            /\ (Delivering /\ Dispatching(c)) =>
                 /\ Len(call[c].log) <= call[c].regLen
                 /\ \A id \in 1..Len(listeners) : TimesInvoked(c, id) <= 1)
    /\ []((\A c \in Tasks : ~Busy(c)) => WriteFree)
    /\ \A c \in Tasks :
         (Delivering /\ Dispatching(c) /\ Running(c) /\ BodiesComplete(c))
           ~> (Dispatching(c) /\ HasReturned(c) /\ ~Holds(c))

\* A Sequential dispatch returned after calling each of three registry entries
\* once, and the lock is free.
C18_Witness ==
    \E c \in Tasks :
      /\ engine = "Sequential" /\ Dispatching(c) /\ HasReturned(c)
      /\ call[c].regLen = 3 /\ Len(call[c].log) = 3
      /\ WriteFree

\* C19 Concurrent engine delivers snapshots: the step that begins a Concurrent
\* dispatch makes one future per matched listener, each owning a copy equal to
\* the caller's value, before any body has run; a later step of the dispatch
\* changes at most one future's copy, by that future's own closure, and calls
\* that closure with the caller's value; no step changes the caller's event.
C19_Snapshots ==
    [][engine = "Concurrent" =>
         \A c \in Tasks :
           /\ (call'[c].op = "dispatch" /\ call'[c].status = "running" /\ ~Running(c)) =>
                /\ call'[c].log = <<>>
                /\ Len(call'[c].futs) = Cardinality(MatchingIds(call'[c].ev, Len(listeners)))
                /\ \A k \in 1..Len(call'[c].futs) :
                     /\ call'[c].futs[k].st = "created"
                     /\ call'[c].futs[k].ev = call'[c].event0
                /\ call'[c].event = call'[c].event0
           /\ (Dispatching(c) /\ Running(c) /\ Stepped(c)) =>
                /\ call'[c].event = call[c].event
                /\ call'[c].event0 = call[c].event0
                /\ Len(call'[c].futs) = Len(call[c].futs)
                /\ Cardinality({k \in 1..Len(call[c].futs) :
                                  call'[c].futs[k] # call[c].futs[k]}) <= 1
                /\ \A k \in 1..Len(call[c].futs) :
                     call'[c].futs[k].ev \in
                       {call[c].futs[k].ev, Apply(call[c].futs[k].op, call[c].event0)}
                /\ Len(call'[c].log) > Len(call[c].log) =>
                     call'[c].log[Len(call'[c].log)].seen = call[c].event0]_vars

\* A Concurrent dispatch of the greatest value returned: both its listeners
\* changed their copies, to the same value, and the caller's event is as it
\* was passed in.
C19_Witness ==
    \E c \in Tasks :
      /\ engine = "Concurrent" /\ Dispatching(c) /\ HasReturned(c)
      /\ call[c].event0 = MaxVal /\ call[c].event = MaxVal
      /\ Len(call[c].futs) = 2
      /\ call[c].futs[1].ev = Apply("inc", MaxVal)
      /\ call[c].futs[2].ev = Apply("inc", MaxVal)

\* The closure named id calls has_listeners or dispatch on its own dispatcher.
Reenters(id) == Registered(id) /\ EntryById(id).handler.on_event.op = "reenter"

\* C20 Sequential dispatch is not re-entrant: a Sequential dispatch that has
\* not ended is the lock's writer, from before its first listener to after its
\* last, so the lock is free neither for a reader nor for a writer; a listener
\* that calls has_listeners or dispatch on its own dispatcher is the last one
\* its dispatch calls, and that dispatch is blocked for good or ended by a
\* panic, and never holds a result of success.
C20_NotReentrant ==
    engine = "Sequential" =>
      \A c \in Tasks :
        Dispatching(c) =>
          /\ Busy(c) => (lock.writer = c /\ ~ReadFree /\ ~WriteFree)
          /\ \A k \in 1..Len(call[c].log) :
               Reenters(call[c].log[k].id) =>
                 /\ k = Len(call[c].log)
                 /\ call[c].status \in {"blocked", "panicked", "aborted"}
                 /\ call[c].result # "Ok(())"
                 /\ call[c].status = "blocked" => lock.writer = c
                 /\ call[c].status = "panicked" => poisoned

\* A Sequential dispatch is blocked in its second listener, which asked for
\* the lock the dispatch holds.
C20_Witness ==
    \E c \in Tasks :
      /\ engine = "Sequential" /\ Dispatching(c)
      /\ call[c].status = "blocked"
      /\ Len(call[c].log) = 2
      /\ Reenters(call[c].log[2].id)
      /\ lock.writer = c

====
